---- MODULE Spec2Model ----
(***************************************************************************)
(* News collection-and-enrichment pipeline (statistics/get_news.py):       *)
(* State Matcher (extract_states), Leaning Scorer                          *)
(* (analyze_political_leaning), Article Fetcher (get_news_articles) and    *)
(* the Enrichment Pipeline (compile_news_political_data), and the          *)
(* dashboard's load_data (statistics/streamlit_map.py), which reads the    *)
(* file the pipeline leaves.                                               *)
(*                                                                         *)
(* Python strings are sequences of one-character strings, so that the      *)
(* substring test `in`, len() and strip() are computed character by         *)
(* character. Python's None is the value NoneVal.                           *)
(***************************************************************************)
EXTENDS Integers, Sequences, FiniteSets, TLC

\* State of one call of extract_states: its argument, whether it has
\* returned, and the list it returned.
VARIABLES es_text, es_pc, es_result

\* State of one call of analyze_political_leaning: its argument, whether it
\* has returned, what the classification service answered (when called),
\* the number of requests made to the service, and the outcome of the call
\* (value returned, exception that left the function).
VARIABLES sc_text, sc_pc, sc_completion, sc_calls, sc_out

\* State of one call of get_news_articles: where the call stands ("idle",
\* "loop": at the test of the while loop, "done": returned), the locals
\* page and all_articles, the page numbers requested so far
\* (request_body["articlesPage"] of each POST), the responses the search
\* service gave to them, and the number of results the service will still
\* deliver.
VARIABLES f_pc, page, all_articles, f_requests, f_responses, quota

\* State of one run of compile_news_political_data: where the run stands
\* ("idle"; "topics": in the loop over topics; "process": at the head of
\* the loop over the unique articles; "score": states were found in the
\* current article, about to analyze it; "done": returned; "raised": left
\* by an exception), the index of the topic being fetched, and the locals
\* all_articles (here p_all_articles), unique_urls and unique_articles.
VARIABLES p_pc, topic_idx, p_all_articles, unique_urls, unique_articles

\* The loop over the unique articles: the position of the current article
\* in unique_articles (i + 1), the local full_text, the rows appended to
\* processed_data, the table returned (df), the exception that left the
\* run (if any), and the calls of extract_states and
\* analyze_political_leaning made so far, in order.
VARIABLES proc_idx, full_text, processed_data, df, p_exc, invocations

\* The files of the working directory (path -> content), and one call of
\* the dashboard's load_data: whether it has returned, and what it
\* returned.
VARIABLES files, ld_pc, ld_out

esVars == <<es_text, es_pc, es_result>>
scVars == <<sc_text, sc_pc, sc_completion, sc_calls, sc_out>>
fVars  == <<f_pc, page, all_articles, f_requests, f_responses, quota>>
pVars  == <<p_pc, topic_idx, p_all_articles, unique_urls, unique_articles>>
rVars  == <<proc_idx, full_text, processed_data, df, p_exc, invocations>>
dVars  == <<files, ld_pc, ld_out>>
vars == <<esVars, scVars, fVars, pVars, rVars, dVars>>

\* ------------------------------------------------------------------------
\* Python values and string primitives
\* ------------------------------------------------------------------------

\* None: a value no character sequence equals (characters are one-character
\* strings).
NoneVal == <<"None">>

\* Python truthiness of a str-or-None value: `if x` / `not x`.
Truthy(x) == x # NoneVal /\ x # <<>>

Range(s) == {s[i] : i \in 1..Len(s)}

\* `sub in s` for strings: sub occurs at index p of s (1-based).
OccursAt(sub, s, p) ==
  /\ p >= 1
  /\ p + Len(sub) - 1 <= Len(s)
  /\ \A k \in 1..Len(sub) : s[p + k - 1] = sub[k]

Contains(sub, s) == \E p \in 1..(Len(s) - Len(sub) + 1) : OccursAt(sub, s, p)

\* `x in list`
InList(x, list) == \E i \in 1..Len(list) : list[i] = x

SetMin(S) == CHOOSE m \in S : \A x \in S : m <= x

\* Characters str.strip() removes and float() skips around a literal.
Whitespace == {" ", "\t", "\n", "\r"}

RECURSIVE LStrip(_)
LStrip(s) ==
  IF s # <<>> /\ Head(s) \in Whitespace THEN LStrip(Tail(s)) ELSE s

RECURSIVE RStrip(_)
RStrip(s) ==
  IF s # <<>> /\ s[Len(s)] \in Whitespace
    THEN RStrip(SubSeq(s, 1, Len(s) - 1))
    ELSE s

\* s.strip()
Strip(s) == RStrip(LStrip(s))

\* s[:n]
Prefix(s, n) == SubSeq(s, 1, IF Len(s) < n THEN Len(s) ELSE n)

\* ------------------------------------------------------------------------
\* Python floats: finite values (integers here), nan, inf and -inf
\* ------------------------------------------------------------------------
Fin(n) == [k |-> "fin", v |-> n]
NaN    == [k |-> "nan", v |-> 0]
PosInf == [k |-> "inf", v |-> 1]
NegInf == [k |-> "inf", v |-> -1]

IsFinite(x) == x.k = "fin"

\* a < b on floats: every comparison with nan is False.
FloatLt(a, b) ==
  CASE a.k = "nan" \/ b.k = "nan" -> FALSE
    [] a.k = "fin" /\ b.k = "fin" -> a.v < b.v
    [] a.k = "inf" /\ b.k = "fin" -> a.v < 0
    [] a.k = "fin" /\ b.k = "inf" -> b.v > 0
    [] OTHER                      -> a.v < b.v

\* The builtins min(a, b) and max(a, b): the first argument is kept unless
\* the second is strictly smaller (larger).
PyMin(a, b) == IF FloatLt(b, a) THEN b ELSE a
PyMax(a, b) == IF FloatLt(a, b) THEN b ELSE a

Digits == <<"0", "1", "2", "3", "4", "5", "6", "7", "8", "9">>

IsDigit(c) == \E d \in 1..Len(Digits) : Digits[d] = c
DigitValue(c) == (CHOOSE d \in 1..Len(Digits) : Digits[d] = c) - 1

RECURSIVE DigitsValue(_)
DigitsValue(s) ==
  IF s = <<>> THEN 0
  ELSE Len(Digits) * DigitsValue(SubSeq(s, 1, Len(s) - 1)) + DigitValue(s[Len(s)])

\* str(n) for an integer n.
RECURSIVE NatToStr(_)
NatToStr(n) ==
  IF n < Len(Digits) THEN <<Digits[n + 1]>>
  ELSE NatToStr(n \div Len(Digits)) \o <<Digits[(n % Len(Digits)) + 1]>>

IntToStr(n) == IF n < 0 THEN <<"-">> \o NatToStr(-n) ELSE NatToStr(n)

\* float(s): surrounding whitespace is skipped, then an optional sign and
\* either a run of digits, "nan", "inf" or "infinity"; anything else raises
\* ValueError (ok = FALSE).
ParseFloat(s) ==
  LET t    == Strip(s)
      neg  == t # <<>> /\ Head(t) = "-"
      body == IF t # <<>> /\ Head(t) \in {"-", "+"} THEN Tail(t) ELSE t
  IN  CASE body = <<"n", "a", "n">>
             -> [ok |-> TRUE, val |-> NaN]
        [] body \in {<<"i", "n", "f">>, <<"i", "n", "f", "i", "n", "i", "t", "y">>}
             -> [ok |-> TRUE, val |-> IF neg THEN NegInf ELSE PosInf]
        [] body # <<>> /\ \A i \in 1..Len(body) : IsDigit(body[i])
             -> [ok |-> TRUE,
                 val |-> Fin(IF neg THEN -DigitsValue(body) ELSE DigitsValue(body))]
        [] OTHER
             -> [ok |-> FALSE, val |-> NaN]

\* ------------------------------------------------------------------------
\* State Matcher: extract_states
\* ------------------------------------------------------------------------

states ==
  << <<"A","l","a","b","a","m","a">>,
     <<"A","l","a","s","k","a">>,
     <<"A","r","i","z","o","n","a">>,
     <<"A","r","k","a","n","s","a","s">>,
     <<"C","a","l","i","f","o","r","n","i","a">>,
     <<"C","o","l","o","r","a","d","o">>,
     <<"C","o","n","n","e","c","t","i","c","u","t">>,
     <<"D","e","l","a","w","a","r","e">>,
     <<"F","l","o","r","i","d","a">>,
     <<"G","e","o","r","g","i","a">>,
     <<"H","a","w","a","i","i">>,
     <<"I","d","a","h","o">>,
     <<"I","l","l","i","n","o","i","s">>,
     <<"I","n","d","i","a","n","a">>,
     <<"I","o","w","a">>,
     <<"K","a","n","s","a","s">>,
     <<"K","e","n","t","u","c","k","y">>,
     <<"L","o","u","i","s","i","a","n","a">>,
     <<"M","a","i","n","e">>,
     <<"M","a","r","y","l","a","n","d">>,
     <<"M","a","s","s","a","c","h","u","s","e","t","t","s">>,
     <<"M","i","c","h","i","g","a","n">>,
     <<"M","i","n","n","e","s","o","t","a">>,
     <<"M","i","s","s","i","s","s","i","p","p","i">>,
     <<"M","i","s","s","o","u","r","i">>,
     <<"M","o","n","t","a","n","a">>,
     <<"N","e","b","r","a","s","k","a">>,
     <<"N","e","v","a","d","a">>,
     <<"N","e","w"," ","H","a","m","p","s","h","i","r","e">>,
     <<"N","e","w"," ","J","e","r","s","e","y">>,
     <<"N","e","w"," ","M","e","x","i","c","o">>,
     <<"N","e","w"," ","Y","o","r","k">>,
     <<"N","o","r","t","h"," ","C","a","r","o","l","i","n","a">>,
     <<"N","o","r","t","h"," ","D","a","k","o","t","a">>,
     <<"O","h","i","o">>,
     <<"O","k","l","a","h","o","m","a">>,
     <<"O","r","e","g","o","n">>,
     <<"P","e","n","n","s","y","l","v","a","n","i","a">>,
     <<"R","h","o","d","e"," ","I","s","l","a","n","d">>,
     <<"S","o","u","t","h"," ","C","a","r","o","l","i","n","a">>,
     <<"S","o","u","t","h"," ","D","a","k","o","t","a">>,
     <<"T","e","n","n","e","s","s","e","e">>,
     <<"T","e","x","a","s">>,
     <<"U","t","a","h">>,
     <<"V","e","r","m","o","n","t">>,
     <<"V","i","r","g","i","n","i","a">>,
     <<"W","a","s","h","i","n","g","t","o","n">>,
     <<"W","e","s","t"," ","V","i","r","g","i","n","i","a">>,
     <<"W","i","s","c","o","n","s","i","n">>,
     <<"W","y","o","m","i","n","g">>,
     <<"A","L">>,
     <<"A","K">>,
     <<"A","Z">>,
     <<"A","R">>,
     <<"C","A">>,
     <<"C","O">>,
     <<"C","T">>,
     <<"D","E">>,
     <<"F","L">>,
     <<"G","A">>,
     <<"H","I">>,
     <<"I","D">>,
     <<"I","L">>,
     <<"I","N">>,
     <<"I","A">>,
     <<"K","S">>,
     <<"K","Y">>,
     <<"L","A">>,
     <<"M","E">>,
     <<"M","D">>,
     <<"M","A">>,
     <<"M","I">>,
     <<"M","N">>,
     <<"M","S">>,
     <<"M","O">>,
     <<"M","T">>,
     <<"N","E">>,
     <<"N","V">>,
     <<"N","H">>,
     <<"N","J">>,
     <<"N","M">>,
     <<"N","Y">>,
     <<"N","C">>,
     <<"N","D">>,
     <<"O","H">>,
     <<"O","K">>,
     <<"O","R">>,
     <<"P","A">>,
     <<"R","I">>,
     <<"S","C">>,
     <<"S","D">>,
     <<"T","N">>,
     <<"T","X">>,
     <<"U","T">>,
     <<"V","T">>,
     <<"V","A">>,
     <<"W","A">>,
     <<"W","V">>,
     <<"W","I">>,
     <<"W","Y">> >>

abbr_to_name ==
  (<<"A","L">> :> <<"A","l","a","b","a","m","a">>) @@
  (<<"A","K">> :> <<"A","l","a","s","k","a">>) @@
  (<<"A","Z">> :> <<"A","r","i","z","o","n","a">>) @@
  (<<"A","R">> :> <<"A","r","k","a","n","s","a","s">>) @@
  (<<"C","A">> :> <<"C","a","l","i","f","o","r","n","i","a">>) @@
  (<<"C","O">> :> <<"C","o","l","o","r","a","d","o">>) @@
  (<<"C","T">> :> <<"C","o","n","n","e","c","t","i","c","u","t">>) @@
  (<<"D","E">> :> <<"D","e","l","a","w","a","r","e">>) @@
  (<<"F","L">> :> <<"F","l","o","r","i","d","a">>) @@
  (<<"G","A">> :> <<"G","e","o","r","g","i","a">>) @@
  (<<"H","I">> :> <<"H","a","w","a","i","i">>) @@
  (<<"I","D">> :> <<"I","d","a","h","o">>) @@
  (<<"I","L">> :> <<"I","l","l","i","n","o","i","s">>) @@
  (<<"I","N">> :> <<"I","n","d","i","a","n","a">>) @@
  (<<"I","A">> :> <<"I","o","w","a">>) @@
  (<<"K","S">> :> <<"K","a","n","s","a","s">>) @@
  (<<"K","Y">> :> <<"K","e","n","t","u","c","k","y">>) @@
  (<<"L","A">> :> <<"L","o","u","i","s","i","a","n","a">>) @@
  (<<"M","E">> :> <<"M","a","i","n","e">>) @@
  (<<"M","D">> :> <<"M","a","r","y","l","a","n","d">>) @@
  (<<"M","A">> :> <<"M","a","s","s","a","c","h","u","s","e","t","t","s">>) @@
  (<<"M","I">> :> <<"M","i","c","h","i","g","a","n">>) @@
  (<<"M","N">> :> <<"M","i","n","n","e","s","o","t","a">>) @@
  (<<"M","S">> :> <<"M","i","s","s","i","s","s","i","p","p","i">>) @@
  (<<"M","O">> :> <<"M","i","s","s","o","u","r","i">>) @@
  (<<"M","T">> :> <<"M","o","n","t","a","n","a">>) @@
  (<<"N","E">> :> <<"N","e","b","r","a","s","k","a">>) @@
  (<<"N","V">> :> <<"N","e","v","a","d","a">>) @@
  (<<"N","H">> :> <<"N","e","w"," ","H","a","m","p","s","h","i","r","e">>) @@
  (<<"N","J">> :> <<"N","e","w"," ","J","e","r","s","e","y">>) @@
  (<<"N","M">> :> <<"N","e","w"," ","M","e","x","i","c","o">>) @@
  (<<"N","Y">> :> <<"N","e","w"," ","Y","o","r","k">>) @@
  (<<"N","C">> :> <<"N","o","r","t","h"," ","C","a","r","o","l","i","n","a">>) @@
  (<<"N","D">> :> <<"N","o","r","t","h"," ","D","a","k","o","t","a">>) @@
  (<<"O","H">> :> <<"O","h","i","o">>) @@
  (<<"O","K">> :> <<"O","k","l","a","h","o","m","a">>) @@
  (<<"O","R">> :> <<"O","r","e","g","o","n">>) @@
  (<<"P","A">> :> <<"P","e","n","n","s","y","l","v","a","n","i","a">>) @@
  (<<"R","I">> :> <<"R","h","o","d","e"," ","I","s","l","a","n","d">>) @@
  (<<"S","C">> :> <<"S","o","u","t","h"," ","C","a","r","o","l","i","n","a">>) @@
  (<<"S","D">> :> <<"S","o","u","t","h"," ","D","a","k","o","t","a">>) @@
  (<<"T","N">> :> <<"T","e","n","n","e","s","s","e","e">>) @@
  (<<"T","X">> :> <<"T","e","x","a","s">>) @@
  (<<"U","T">> :> <<"U","t","a","h">>) @@
  (<<"V","T">> :> <<"V","e","r","m","o","n","t">>) @@
  (<<"V","A">> :> <<"V","i","r","g","i","n","i","a">>) @@
  (<<"W","A">> :> <<"W","a","s","h","i","n","g","t","o","n">>) @@
  (<<"W","V">> :> <<"W","e","s","t"," ","V","i","r","g","i","n","i","a">>) @@
  (<<"W","I">> :> <<"W","i","s","c","o","n","s","i","n">>) @@
  (<<"W","Y">> :> <<"W","y","o","m","i","n","g">>)

\* f" {state} " in f" {text} " or f" {state}," in text or f" {state}." in text
StateMatches(state, text) ==
  \/ Contains(<<" ">> \o state \o <<" ">>, <<" ">> \o text \o <<" ">>)
  \/ Contains(<<" ">> \o state \o <<",">>, text)
  \/ Contains(<<" ">> \o state \o <<".">>, text)

\* Mutant: an abbreviation is appended as found, not resolved to its name.
AppendStateUnresolved(state, mentioned_states) ==
  IF ~InList(state, mentioned_states)
    THEN Append(mentioned_states, state)
    ELSE mentioned_states

\* Mutant: a newly found state is put in front of the list.
AppendStateInFront(state, mentioned_states) ==
  LET state_name == IF Len(state) = 2 /\ state \in DOMAIN abbr_to_name
                      THEN abbr_to_name[state] ELSE state
  IN  IF ~InList(state_name, mentioned_states)
        THEN <<state_name>> \o mentioned_states
        ELSE mentioned_states

\* The body of the `if` of a matching candidate: an abbreviation (len 2) is
\* looked up in abbr_to_name (.get: None when absent, then skipped); the
\* name is appended unless already in the list.
AppendState(state, mentioned_states) ==
  IF Len(state) = 2
    THEN IF state \in DOMAIN abbr_to_name
              /\ Truthy(abbr_to_name[state])
              /\ ~InList(abbr_to_name[state], mentioned_states)
           THEN Append(mentioned_states, abbr_to_name[state])
           ELSE mentioned_states
    ELSE IF ~InList(state, mentioned_states)
           THEN Append(mentioned_states, state)
           ELSE mentioned_states

\* for state in states: if <state matches>: <AppendState>
\* The candidates that pass the `if`, in table order (the loop visits the
\* table front to back and its body acts on these alone).
MatchingStates(text) ==
  SelectSeq(states, LAMBDA state : StateMatches(state, text))

\* The loop body applied to the matching candidates 1..n, in order.
RECURSIVE ExtractLoop(_, _)
ExtractLoop(matching, n) ==
  IF n = 0 THEN <<>>
  ELSE AppendState(matching[n], ExtractLoop(matching, n - 1))

extract_states(text) ==
  IF ~Truthy(text) THEN <<>> ELSE LET matching == MatchingStates(text)
       IN  ExtractLoop(matching, Len(matching))

\* ------------------------------------------------------------------------
\* Leaning Scorer: analyze_political_leaning
\* ------------------------------------------------------------------------
MinTextLen   == 10    \* len(text.strip()) < 10
PromptLen    == 800   \* text[:800]
ScoreLimit   == 10    \* max(min(score, 10), -10)

\* What openai.chat.completions.create can do: raise (timeout, quota,
\* transport, ...), return a response without choices, or return a response
\* whose first choice has the given content (a string or None).
ApiError     == [kind |-> "error",      content |-> NoneVal]
NoChoices    == [kind |-> "no_choices", content |-> NoneVal]
Message(c)   == [kind |-> "message",    content |-> c]
NoCompletion == [kind |-> "not_called", content |-> NoneVal]

\* The classes `except Exception` catches, among those the body can raise.
ExceptionClasses == {"APIError", "IndexError", "AttributeError", "ValueError"}

\* Mutant: the outer handler catches the API's errors alone.
CaughtByExceptApiError(exc) == exc = "APIError"

\* except Exception as e:
CaughtByExceptException(exc) == exc \in ExceptionClasses

\* except ValueError:
CaughtByExceptValueError(exc) == exc = "ValueError"

\* Mutant: the length test is made on the text as given, not stripped.
TooShortUnstripped(text) == ~Truthy(text) \/ Len(text) < MinTextLen

\* if not text or len(text.strip()) < 10:
TooShort(text) == ~Truthy(text) \/ Len(Strip(text)) < MinTextLen

Returned(x) == [ret |-> x, exc |-> "none"]
Raised(e)   == [ret |-> NaN, exc |-> e]

\* score = float(score_text); normalized_score = max(min(score, 10), -10)
\* inside `try: ... except ValueError: return 0`.
ParseAndClamp(score_text) ==
  LET parsed == ParseFloat(score_text)
      inner  == IF parsed.ok
                  THEN Returned(PyMax(PyMin(parsed.val, Fin(ScoreLimit)),
                                      Fin(-ScoreLimit)))
                  ELSE Raised("ValueError")
  IN  IF inner.exc # "none" /\ CaughtByExceptValueError(inner.exc)
        THEN Returned(Fin(0))
        ELSE inner

\* The body of the outer try: the request, response.choices[0], and
\* .message.content.strip(), then the parse.
ScoreBody(completion) ==
  CASE completion.kind = "error"      -> Raised("APIError")
    [] completion.kind = "no_choices" -> Raised("IndexError")
    [] completion.content = NoneVal   -> Raised("AttributeError")
    [] OTHER                          -> ParseAndClamp(Strip(completion.content))

\* analyze_political_leaning(text), the service answering `completion` if
\* it is asked. called: whether the request was made; prompt: the user
\* message sent.
analyze_political_leaning(text, completion) ==
  IF TooShort(text)
    THEN [ret |-> Fin(0), exc |-> "none", called |-> FALSE, prompt |-> <<>>]
    ELSE LET body == ScoreBody(completion)
             out  == IF body.exc # "none" /\ CaughtByExceptException(body.exc)
                       THEN Returned(Fin(0))
                       ELSE body
         IN  [ret |-> out.ret, exc |-> out.exc, called |-> TRUE,
              prompt |-> Prefix(text, PromptLen)]

\* ------------------------------------------------------------------------
\* Article Fetcher: get_news_articles
\* ------------------------------------------------------------------------
max_pages     == 10    \* max_pages = 10
articlesCount == 100   \* request_body["articlesCount"]
StatusOK      == 200   \* response.status_code != 200

\* A JSON object is a record of the keys it has; d.get(key, default).
DictGet(d, key, default) == IF key \in DOMAIN d THEN d[key] ELSE default

\* A value that is a JSON object or null (the 'source' of a result).
JsonNull    == [t |-> "None", d |-> <<>>]
JsonDict(d) == [t |-> "dict", d |-> d]
EmptyDict   == [k \in {} |-> NoneVal]

\* a or b
PyOr(a, b) == IF Truthy(a) THEN a ELSE b

\* '' and 'Unknown'
EmptyStr == <<>>
Unknown  == <<"U", "n", "k", "n", "o", "w", "n">>

\* datetime.now().isoformat() and datetime.now().strftime('%Y-%m-%d')
NowIso   == <<"n", "o", "w">>
Today    == <<"t", "o", "d", "a", "y">>

\* The body of `for article in articles`: the dictionary appended to
\* transformed_articles, or the exception raised (source null:
\* None.get raises AttributeError).
TransformArticle(article) ==
  LET source == DictGet(article, "source", JsonDict(EmptyDict))
  IN  IF source.t # "dict"
        THEN [exc |-> "AttributeError", art |-> <<>>]
        ELSE [exc |-> "none",
              art |-> [title |-> DictGet(article, "title", EmptyStr),
                       description |-> PyOr(DictGet(article, "description", EmptyStr),
                                            DictGet(article, "extract", EmptyStr)),
                       body |-> DictGet(article, "body", EmptyStr),
                       url |-> DictGet(article, "url", EmptyStr),
                       source |-> [name |-> DictGet(source.d, "title", Unknown)],
                       publishedAt |-> DictGet(article, "dateTime", NowIso),
                       date |-> DictGet(article, "date", Today)]]

\* transformed_articles after the for loop over articles, or the first
\* exception a result raises.
TransformAll(articles) ==
  LET results == [i \in 1..Len(articles) |-> TransformArticle(articles[i])]
  IN  IF \E i \in 1..Len(articles) : results[i].exc # "none"
        THEN [exc |-> results[SetMin({i \in 1..Len(articles) :
                                        results[i].exc # "none"})].exc,
              arts |-> <<>>]
        ELSE [exc |-> "none",
              arts |-> [i \in 1..Len(articles) |-> results[i].art]]

\* What the search service answers to one POST. kind "transport_error":
\* requests.post raises RequestException; kind "http": a response with the
\* given status, whose body is JSON unless json_ok is FALSE. The decoded
\* body has shape "not_dict" (no JSON object), "no_articles" (an object
\* without 'articles'), "null_articles" ('articles': null), "no_results"
\* ('articles' without 'results'), or "results": 'results' is the list
\* head followed by `fill` copies of the result Filler.
Response(kind, status, json_ok, shape, head, fill) ==
  [kind |-> kind, status |-> status, json_ok |-> json_ok,
   shape |-> shape, head |-> head, fill |-> fill]

\* Results of the search service (JSON objects).
U1 == <<"u", "1">>
U2 == <<"u", "2">>
U3 == <<"u", "3">>

RawFull ==
  [title |-> <<"T", "X">>, description |-> <<"d">>, body |-> <<"b">>,
   url |-> U1, source |-> JsonDict([title |-> <<"s">>]),
   dateTime |-> <<"t", "1">>, date |-> <<"d", "1">>]

\* Same url as RawFull, other content; no description but an extract.
RawSameUrl ==
  [title |-> <<"O", "H">>, extract |-> <<"e">>, body |-> <<>>,
   url |-> U1, source |-> JsonDict([title |-> <<"s", "2">>]),
   dateTime |-> <<"t", "2">>, date |-> <<"d", "2">>]

\* Every field present with a null value.
RawNulls ==
  [title |-> NoneVal, description |-> NoneVal, extract |-> NoneVal,
   body |-> NoneVal, url |-> U2, source |-> JsonDict([title |-> NoneVal]),
   dateTime |-> NoneVal, date |-> NoneVal]

\* Every field but the url missing.
RawBare == [url |-> U3]

\* 'source': null.
RawNullSource ==
  [title |-> <<"T", "X">>, description |-> <<"d">>, body |-> <<"b">>,
   url |-> U3, source |-> JsonNull,
   dateTime |-> <<"t", "1">>, date |-> <<"d", "1">>]

\* Two states in title and description; a text long enough to be analyzed.
RawTwoStates ==
  [title |-> <<"O","h","i","o">>, description |-> <<"T","e","x","a","s">>,
   body |-> <<"b">>, url |-> U3, source |-> JsonDict([title |-> <<"s">>]),
   dateTime |-> <<"t", "3">>, date |-> <<"d", "3">>]

\* 'title': null, with a description.
RawNullTitle ==
  [title |-> NoneVal, description |-> <<"T", "X">>, body |-> <<>>,
   url |-> U2, source |-> JsonDict([title |-> <<"s">>]),
   dateTime |-> <<"t", "1">>, date |-> <<"d", "1">>]

\* The results the service delivers to a call of get_news_articles made on
\* its own, and to the calls made during a pipeline run.
RawResults == {RawFull, RawSameUrl, RawNulls, RawBare, RawNullSource}

PipelineResults ==
  {RawFull, RawSameUrl, RawNulls, RawBare, RawTwoStates, RawNullTitle}

Filler == RawFull

\* data.get('articles', {}).get('results', []) of a "results" body.
ResultsOf(response) ==
  response.head \o [i \in 1..response.fill |-> Filler]

\* Mutant: the loop runs one page further.
LoopConditionOffByOne(pg) == pg <= max_pages + 1

\* while page <= max_pages:
LoopCondition(pg) == pg <= max_pages

\* Mutant: no `except Exception` clause.
CaughtInLoopNoCatchAll(exc) == exc \in {"RequestException", "JSONDecodeError"}

\* except requests.exceptions.RequestException / json.JSONDecodeError /
\* Exception: each prints and breaks.
CaughtInLoop(exc) ==
  exc \in {"RequestException", "JSONDecodeError", "AttributeError"}

Break(acc, pg, why)   == [all_articles |-> acc, page |-> pg, brk |-> TRUE,
                          exc |-> "none", why |-> why]
Throw(acc, pg, exc)   == [all_articles |-> acc, page |-> pg, brk |-> TRUE,
                          exc |-> exc, why |-> "exception"]
Continue(acc, pg)     == [all_articles |-> acc, page |-> pg, brk |-> FALSE,
                          exc |-> "none", why |-> "next"]

\* The body of the try of one iteration, the service answering `response`:
\* the new all_articles and page, whether the loop is left by break, and
\* the exception raised in the try (if any).
TryBody(acc, pg, response) ==
  IF response.kind = "transport_error" THEN Throw(acc, pg, "RequestException")
  ELSE IF response.status # StatusOK THEN Break(acc, pg, "status")
  ELSE IF ~response.json_ok THEN Throw(acc, pg, "JSONDecodeError")
  ELSE IF response.shape \in {"not_dict", "null_articles"}
    THEN Throw(acc, pg, "AttributeError")
  ELSE LET articles == IF response.shape = "results"
                         THEN ResultsOf(response) ELSE <<>>
           transformed == TransformAll(articles)
       IN  IF articles = <<>> THEN Break(acc, pg, "empty")
           ELSE IF transformed.exc # "none" THEN Throw(acc, pg, transformed.exc)
           ELSE IF Len(articles) < articlesCount
             THEN Break(acc \o transformed.arts, pg, "short")
           ELSE Continue(acc \o transformed.arts, pg + 1)

\* One iteration of the while loop: the try and its except clauses. An
\* exception a clause catches ends the loop by break; one that none
\* catches leaves the function.
Iteration(acc, pg, response) ==
  LET out == TryBody(acc, pg, response)
  IN  IF out.exc # "none" /\ CaughtInLoop(out.exc)
        THEN Break(out.all_articles, out.page, "exception")
        ELSE out


\* ------------------------------------------------------------------------
\* Inputs of the Leaning Scorer
\* ------------------------------------------------------------------------
MaxTextLen == 11   \* longest text given to the scorer
MaxRaw     == 12   \* largest magnitude of a number the service answers

TextAlphabet == {"a", " "}

RECURSIVE StringsOf(_)
StringsOf(n) ==
  IF n = 0 THEN {<<>>}
  ELSE {t \o <<c>> : t \in StringsOf(n - 1), c \in TextAlphabet}

ScorerTexts == {NoneVal} \cup UNION {StringsOf(n) : n \in 0..MaxTextLen}

ScoreTexts ==
  {IntToStr(n) : n \in (-MaxRaw)..MaxRaw}
    \cup {<<" ">> \o IntToStr(n) \o <<"\n">> : n \in {-MaxRaw, 0, MaxRaw}}
    \cup { <<"n", "a", "n">>, <<"i", "n", "f">>, <<"-", "i", "n", "f">>,
           <<>>, <<"a", "b", "c">>, <<"7", "/", "1", "0">>, <<"-">> }

Completions ==
  {ApiError, NoChoices, Message(NoneVal)} \cup {Message(c) : c \in ScoreTexts}

ScorerInit ==
  /\ sc_text \in ScorerTexts
  /\ sc_pc = "call"
  /\ sc_completion = NoCompletion
  /\ sc_calls = 0
  /\ sc_out = [ret |-> Fin(0), exc |-> "none", called |-> FALSE, prompt |-> <<>>]

\* One call analyze_political_leaning(sc_text); the service's answer is
\* recorded when the request is made.
ScorerCall ==
  /\ sc_pc = "call"
  /\ \E completion \in Completions :
       LET out == analyze_political_leaning(sc_text, completion)
       IN  /\ sc_out' = out
           /\ sc_completion' = IF out.called THEN completion ELSE NoCompletion
           /\ sc_calls' = IF out.called THEN sc_calls + 1 ELSE sc_calls
  /\ sc_pc' = "done"
  /\ UNCHANGED sc_text


\* ------------------------------------------------------------------------
\* The search service, and the steps of get_news_articles
\* ------------------------------------------------------------------------
MaxShort    == 2    \* longest explicit result list of a page
MaxOversize == 1    \* pages of one query with more results than asked for
MaxFetched  == 2    \* results the service delivers during one pipeline run

\* Results the service can deliver to one call of get_news_articles made on
\* its own: more than max_pages pages can hold.
FetchQuota == (max_pages + 1) * (articlesCount + 1)

ServiceResults == IF p_pc = "idle" THEN RawResults ELSE PipelineResults

RECURSIVE ListsOf(_)
ListsOf(n) ==
  IF n = 0 THEN {<<>>}
  ELSE {l \o <<r>> : l \in ListsOf(n - 1), r \in ServiceResults}

ShortLists == UNION {ListsOf(n) : n \in 1..MaxShort}

HttpOK(shape, head, fill) == Response("http", StatusOK, TRUE, shape, head, fill)

\* Answers that deliver no result: the request fails, the status is not
\* 200, the body is no JSON, or the body has no usable result list.
FailureResponses ==
  { Response("transport_error", 0, FALSE, "none", <<>>, 0),
    Response("http", 500, TRUE, "none", <<>>, 0),
    Response("http", StatusOK, FALSE, "none", <<>>, 0),
    HttpOK("not_dict", <<>>, 0),
    HttpOK("null_articles", <<>>, 0) }

EmptyResponses ==
  { HttpOK("no_articles", <<>>, 0),
    HttpOK("no_results", <<>>, 0),
    HttpOK("results", <<>>, 0) }

\* Pages with results: a short explicit list, or articlesCount - 1,
\* articlesCount or (oversize) articlesCount + 1 copies of Filler; none
\* with more results than the service will still deliver.
ResultResponses(oversize_allowed, left) ==
  {HttpOK("results", head, 0) : head \in {h \in ShortLists : Len(h) <= left}}
    \cup {HttpOK("results", <<>>, n) :
            n \in {m \in {articlesCount - 1, articlesCount} : m <= left}}
    \cup (IF oversize_allowed /\ articlesCount + 1 <= left
            THEN {HttpOK("results", <<>>, articlesCount + 1)}
            ELSE {})

NumResults(response) ==
  IF response.kind = "http" /\ response.status = StatusOK /\ response.json_ok
       /\ response.shape = "results"
    THEN Len(response.head) + response.fill
    ELSE 0

OversizeCount(responses) ==
  Cardinality({i \in 1..Len(responses) : NumResults(responses[i]) > articlesCount})

\* What the service can answer now.
ServiceAnswers ==
  FailureResponses \cup EmptyResponses
    \cup ResultResponses(OversizeCount(f_responses) < MaxOversize, quota)

FIdle ==
  /\ f_pc = "idle"
  /\ page = 1
  /\ all_articles = <<>>
  /\ f_requests = <<>>
  /\ f_responses = <<>>
  /\ quota = 0

\* get_news_articles(query) is entered: all_articles = [], page = 1.
FetchInit ==
  /\ f_pc = "loop"
  /\ page = 1
  /\ all_articles = <<>>
  /\ f_requests = <<>>
  /\ f_responses = <<>>
  /\ quota = FetchQuota

\* One iteration of `while page <= max_pages`: the POST for `page`, the
\* service's answer, the rest of the loop body, and the loop test that
\* follows it; the function returns all_articles when the loop is left by
\* break or by the test.
FetchPage ==
  /\ f_pc = "loop"
  /\ LoopCondition(page)
  /\ \E response \in ServiceAnswers :
       LET out == Iteration(all_articles, page, response)
       IN  /\ f_requests' = Append(f_requests, page)
           /\ f_responses' = Append(f_responses, response)
           /\ quota' = quota - NumResults(response)
           /\ all_articles' = out.all_articles
           /\ page' = out.page
           /\ f_pc' = IF out.exc # "none" THEN "raised"
                      ELSE IF out.brk \/ ~LoopCondition(out.page) THEN "done"
                      ELSE "loop"


\* ------------------------------------------------------------------------
\* Enrichment Pipeline: compile_news_political_data
\* ------------------------------------------------------------------------
topics ==
  <<"politics", "election", "governor", "senator", "congress",
    "state legislation">>

\* Mutant: every article is kept, its url seen before or not.
DedupStepKeepAll(acc, article) ==
  [unique_urls |-> acc.unique_urls \cup {article.url},
   unique_articles |-> Append(acc.unique_articles, article)]

\* if article['url'] not in unique_urls: add the url, append the article.
DedupStep(acc, article) ==
  IF article.url \notin acc.unique_urls
    THEN [unique_urls |-> acc.unique_urls \cup {article.url},
          unique_articles |-> Append(acc.unique_articles, article)]
    ELSE acc

\* for article in all_articles: ...   (the first n articles)
RECURSIVE DedupLoop(_, _)
DedupLoop(articles, n) ==
  IF n = 0 THEN [unique_urls |-> {}, unique_articles |-> <<>>]
  ELSE DedupStep(DedupLoop(articles, n - 1), articles[n])

PIdle ==
  /\ p_pc = "idle"
  /\ topic_idx = 1
  /\ p_all_articles = <<>>
  /\ unique_urls = {}
  /\ unique_articles = <<>>

\* compile_news_political_data() is entered: all_articles = [], the loop
\* over topics starts; get_news_articles is not running.
PipelineInit ==
  /\ p_pc = "topics"
  /\ topic_idx = 1
  /\ p_all_articles = <<>>
  /\ unique_urls = {}
  /\ unique_articles = <<>>
  /\ f_pc = "idle"
  /\ page = 1
  /\ all_articles = <<>>
  /\ f_requests = <<>>
  /\ f_responses = <<>>
  /\ quota = MaxFetched

\* for topic in topics: articles = get_news_articles(topic) is called.
CallFetch ==
  /\ p_pc = "topics"
  /\ topic_idx <= Len(topics)
  /\ f_pc = "idle"
  /\ f_pc' = "loop"
  /\ page' = 1
  /\ all_articles' = <<>>
  /\ f_requests' = <<>>
  /\ f_responses' = <<>>
  /\ UNCHANGED <<quota, pVars>>

\* get_news_articles returned: if articles: all_articles.extend(articles);
\* on to the next topic.
TopicDone ==
  /\ p_pc = "topics"
  /\ f_pc = "done"
  /\ p_all_articles' = IF all_articles # <<>>
                         THEN p_all_articles \o all_articles
                         ELSE p_all_articles
  /\ topic_idx' = topic_idx + 1
  /\ f_pc' = "idle"
  /\ UNCHANGED <<page, all_articles, f_requests, f_responses, quota,
                 p_pc, unique_urls, unique_articles>>

\* if not all_articles: return pd.DataFrame()
NoArticles ==
  /\ p_pc = "topics"
  /\ topic_idx > Len(topics)
  /\ f_pc = "idle"
  /\ p_all_articles = <<>>
  /\ p_pc' = "done"
  /\ UNCHANGED <<fVars, topic_idx, p_all_articles, unique_urls, unique_articles>>

\* Remove duplicates based on URL: the loop over all_articles.
Deduplicate ==
  /\ p_pc = "topics"
  /\ topic_idx > Len(topics)
  /\ f_pc = "idle"
  /\ p_all_articles # <<>>
  /\ LET out == DedupLoop(p_all_articles, Len(p_all_articles))
     IN  /\ unique_urls' = out.unique_urls
         /\ unique_articles' = out.unique_articles
  /\ p_pc' = "process"
  /\ UNCHANGED <<fVars, topic_idx, p_all_articles>>


\* ------------------------------------------------------------------------
\* Enrichment Pipeline: the loop over the unique articles, and the save
\* ------------------------------------------------------------------------

\* full_text += " " + part: str + str, or TypeError when full_text is None.
AddPart(text, part) ==
  IF text.exc # "none" THEN text
  ELSE IF text.text = NoneVal THEN [exc |-> "TypeError", text |-> <<>>]
  ELSE [exc |-> "none", text |-> text.text \o <<" ">> \o part]

\* full_text = title; if description: full_text += " " + description;
\* if body: full_text += " " + body
CompositeText(article) ==
  LET title       == article.title
      description == article.description
      body        == article.body
      t0 == [exc |-> "none", text |-> title]
      t1 == IF Truthy(description) THEN AddPart(t0, description) ELSE t0
      t2 == IF Truthy(body) THEN AddPart(t1, body) ELSE t1
  IN  t2

\* One dictionary appended to processed_data.
Row(article, state, leaning) ==
  [state |-> state,
   title |-> article.title,
   url |-> article.url,
   source |-> article.source.name,
   political_leaning |-> leaning,
   date |-> article.date]

\* Mutant: a row for the first state only.
StateRowsFirstOnly(article, mentioned, leaning) ==
  <<Row(article, mentioned[1], leaning)>>

\* for state in states: processed_data.append({...})
StateRows(article, mentioned, leaning) ==
  [k \in 1..Len(mentioned) |-> Row(article, mentioned[k], leaning)]

\* What the classification service answers during a pipeline run.
PipelineCompletions ==
  {ApiError, Message(<<"7">>), Message(<<"-", "1", "2">>),
   Message(<<"n", "a", "n">>)}

\* A call recorded in invocations.
Invocation(fn, idx, text) == [fn |-> fn, article |-> idx, text |-> text]

\* The files: the path compile_news_political_data writes and the path
\* load_data reads, both relative to the working directory.
OutputFile == "news_political_data.csv"
DATA_FILE  == "statistics/news_political_data.csv"
Paths == {OutputFile, DATA_FILE}

\* A CSV file is represented by the table it holds and by the run that
\* wrote it (its modification time).
Absent == [exists |-> FALSE, table |-> <<>>, mtime |-> "never"]
FileOf(table, mtime) == [exists |-> TRUE, table |-> table, mtime |-> mtime]

\* The artifact of an earlier run.
PriorTable ==
  << [state |-> <<"U","t","a","h">>, title |-> <<"o","l","d">>,
      url |-> <<"u", "0">>, source |-> <<"s">>,
      political_leaning |-> Fin(3), date |-> <<"d", "0">>] >>
PriorFile == FileOf(PriorTable, "prior run")

\* Mutant: the table is written whether it is empty or not.
SaveTableAlways(fs, table) ==
  [fs EXCEPT ![OutputFile] = FileOf(table, "this run")]

\* if not df.empty: df.to_csv('news_political_data.csv', index=False)
SaveTable(fs, table) ==
  IF table # <<>>
    THEN [fs EXCEPT ![OutputFile] = FileOf(table, "this run")]
    ELSE fs

\* load_data(): (None, None) when DATA_FILE does not exist, else the table
\* read from it and its modification time.
load_data(fs) ==
  IF ~fs[DATA_FILE].exists
    THEN [found |-> FALSE, df |-> <<>>, mod_time |-> "never"]
    ELSE [found |-> TRUE, df |-> fs[DATA_FILE].table,
          mod_time |-> fs[DATA_FILE].mtime]

RIdle ==
  /\ proc_idx = 1
  /\ full_text = <<>>
  /\ processed_data = <<>>
  /\ df = <<>>
  /\ p_exc = "none"
  /\ invocations = <<>>

DIdle ==
  /\ files = [path \in Paths |-> Absent]
  /\ ld_pc = "idle"
  /\ ld_out = [found |-> FALSE, df |-> <<>>, mod_time |-> "never"]

\* Before the run each of the two files is missing or left by an earlier
\* run; load_data has not been called.
FilesInit ==
  /\ files \in [Paths -> {Absent, PriorFile}]
  /\ ld_pc = "idle"
  /\ ld_out = [found |-> FALSE, df |-> <<>>, mod_time |-> "never"]

\* for i, article in enumerate(unique_articles): the composite text and
\* states = extract_states(full_text); an article without states is done.
ProcessArticle ==
  /\ p_pc = "process"
  /\ proc_idx <= Len(unique_articles)
  /\ LET article == unique_articles[proc_idx]
         text    == CompositeText(article)
         found   == extract_states(text.text)
     IN  IF text.exc # "none"
           THEN /\ p_pc' = "raised"
                /\ p_exc' = text.exc
                /\ UNCHANGED <<esVars, proc_idx, full_text, invocations>>
           ELSE /\ full_text' = text.text
                /\ es_text' = text.text
                /\ es_result' = found
                /\ es_pc' = "done"
                /\ invocations' =
                     Append(invocations,
                            Invocation("extract_states", proc_idx, text.text))
                /\ p_pc' = IF Truthy(found) THEN "score" ELSE "process"
                /\ proc_idx' = IF Truthy(found) THEN proc_idx ELSE proc_idx + 1
                /\ UNCHANGED p_exc
  /\ UNCHANGED <<scVars, fVars, topic_idx, p_all_articles, unique_urls,
                 unique_articles, processed_data, df, dVars>>

\* if states: leaning = analyze_political_leaning(full_text), and one row
\* per state; es_result holds the local `states`.
ScoreArticle ==
  /\ p_pc = "score"
  /\ \E completion \in PipelineCompletions :
       LET article == unique_articles[proc_idx]
           out     == analyze_political_leaning(full_text, completion)
       IN  /\ sc_text' = full_text
           /\ sc_pc' = "done"
           /\ sc_out' = out
           /\ sc_completion' = IF out.called THEN completion ELSE NoCompletion
           /\ sc_calls' = IF out.called THEN sc_calls + 1 ELSE sc_calls
           /\ invocations' =
                Append(invocations,
                       Invocation("analyze_political_leaning", proc_idx,
                                  full_text))
           /\ IF out.exc # "none"
                THEN /\ p_pc' = "raised"
                     /\ p_exc' = out.exc
                     /\ UNCHANGED <<proc_idx, processed_data>>
                ELSE /\ processed_data' =
                          processed_data \o StateRows(article, es_result, out.ret)
                     /\ proc_idx' = proc_idx + 1
                     /\ p_pc' = "process"
                     /\ UNCHANGED p_exc
  /\ UNCHANGED <<esVars, fVars, topic_idx, p_all_articles, unique_urls,
                 unique_articles, full_text, df, dVars>>

\* After the loop: df = pd.DataFrame(processed_data), the save, return df.
SaveAndReturn ==
  /\ p_pc = "process"
  /\ proc_idx > Len(unique_articles)
  /\ df' = processed_data
  /\ files' = SaveTable(files, processed_data)
  /\ p_pc' = "done"
  /\ UNCHANGED <<esVars, scVars, fVars, topic_idx, p_all_articles, unique_urls,
                 unique_articles, proc_idx, full_text, processed_data, p_exc,
                 invocations, ld_pc, ld_out>>

\* The dashboard calls load_data() after the run has ended, from the same
\* working directory.
LoadData ==
  /\ p_pc \in {"done", "raised"}
  /\ ld_pc = "idle"
  /\ ld_out' = load_data(files)
  /\ ld_pc' = "done"
  /\ UNCHANGED <<esVars, scVars, fVars, pVars, rVars, files>>

\* ------------------------------------------------------------------------
\* Inputs of the State Matcher: texts made of at most MaxPieces pieces
\* ------------------------------------------------------------------------
MaxPieces == 3

Ohio  == <<"O","h","i","o">>
Texas == <<"T","e","x","a","s">>

Pieces ==
  { Ohio, <<"O","H">>, Texas, <<"T","X">>, <<" ">>, <<",">>, <<".">>, <<"x">> }

RECURSIVE TextsOf(_)
TextsOf(n) ==
  IF n = 0 THEN {<<>>}
  ELSE {t \o p : t \in TextsOf(n - 1), p \in Pieces}

Texts == UNION {TextsOf(n) : n \in 0..MaxPieces}

EsIdle ==
  /\ es_text = <<>>
  /\ es_pc = "idle"
  /\ es_result = <<>>

ScIdle ==
  /\ sc_text = <<>>
  /\ sc_pc = "idle"
  /\ sc_completion = NoCompletion
  /\ sc_calls = 0
  /\ sc_out = [ret |-> Fin(0), exc |-> "none", called |-> FALSE, prompt |-> <<>>]

ExtractInit ==
  /\ es_text \in Texts
  /\ es_pc = "call"
  /\ es_result = <<>>

\* One call extract_states(es_text).
ExtractStatesCall ==
  /\ es_pc = "call"
  /\ es_result' = extract_states(es_text)
  /\ es_pc' = "done"
  /\ UNCHANGED es_text

\* ------------------------------------------------------------------------
\* Specifications
\* ------------------------------------------------------------------------

\* One call of extract_states on any text of Texts.
ExtractStart == ExtractInit /\ ScIdle /\ FIdle /\ PIdle /\ RIdle /\ DIdle
ExtractNext ==
  ExtractStatesCall /\ UNCHANGED <<scVars, fVars, pVars, rVars, dVars>>
SpecExtract == ExtractStart /\ [][ExtractNext]_vars

\* One call of analyze_political_leaning on any text of ScorerTexts.
ScorerStart == ScorerInit /\ EsIdle /\ FIdle /\ PIdle /\ RIdle /\ DIdle
ScorerNext == ScorerCall /\ UNCHANGED <<esVars, fVars, pVars, rVars, dVars>>
SpecScorer == ScorerStart /\ [][ScorerNext]_vars

\* One call of get_news_articles against any behaviour of the service.
FetchStart == FetchInit /\ EsIdle /\ ScIdle /\ PIdle /\ RIdle /\ DIdle
FetchNext == FetchPage /\ UNCHANGED <<esVars, scVars, pVars, rVars, dVars>>
SpecFetch == FetchStart /\ [][FetchNext]_vars

\* One run of compile_news_political_data against any behaviour of the
\* search service that delivers at most MaxFetched results and of the
\* classification service, followed by one call of load_data.
Init == PipelineInit /\ EsIdle /\ ScIdle /\ RIdle /\ FilesInit
Next ==
  \/ CallFetch /\ UNCHANGED <<esVars, scVars, rVars, dVars>>
  \/ FetchPage /\ UNCHANGED <<esVars, scVars, pVars, rVars, dVars>>
  \/ TopicDone /\ UNCHANGED <<esVars, scVars, rVars, dVars>>
  \/ NoArticles /\ UNCHANGED <<esVars, scVars, rVars, dVars>>
  \/ Deduplicate /\ UNCHANGED <<esVars, scVars, rVars, dVars>>
  \/ ProcessArticle
  \/ ScoreArticle
  \/ SaveAndReturn
  \/ LoadData
Spec == Init /\ [][Next]_vars

\* ------------------------------------------------------------------------
\* Properties of the State Matcher (checked under SpecExtract)
\* ------------------------------------------------------------------------

\* The canonical full names: the entries of the table that are no
\* two-letter abbreviation.
CanonicalNames == {s \in Range(states) : Len(s) # 2}

\* The candidates (full name and abbreviation) that stand for state name s.
CandidatesOf(s) == {s} \cup {a \in DOMAIN abbr_to_name : abbr_to_name[a] = s}

NoDuplicates(list) ==
  \A i, j \in 1..Len(list) : i # j => list[i] # list[j]

\* C1: every element of the list extract_states returns is a canonical full
\* state name, never an abbreviation, and no name appears twice, also when
\* both the full name and the abbreviation of a state occur in the text.
C1_CanonicalNoDuplicates ==
  es_pc = "done" =>
    /\ \A i \in 1..Len(es_result) :
         es_result[i] \in CanonicalNames /\ Len(es_result[i]) # 2
    /\ NoDuplicates(es_result)

\* A text in which a state's full name and its abbreviation both match, and
\* the state is reported.
C1_Witness ==
  /\ es_pc = "done"
  /\ \E a \in DOMAIN abbr_to_name :
       /\ StateMatches(a, es_text)
       /\ StateMatches(abbr_to_name[a], es_text)
       /\ InList(abbr_to_name[a], es_result)

\* Positions (in the text padded with one space on each side) at which the
\* matcher's test finds candidate c: " c " in the padded text, or " c," or
\* " c." in the text itself (index q of the text is index q + 1 of the
\* padded text).
MentionPositions(c, text) ==
  LET padded == <<" ">> \o text \o <<" ">>
  IN  {p \in 1..Len(padded) :
         \/ OccursAt(<<" ">> \o c \o <<" ">>, padded, p)
         \/ p >= 2 /\ OccursAt(<<" ">> \o c \o <<",">>, text, p - 1)
         \/ p >= 2 /\ OccursAt(<<" ">> \o c \o <<".">>, text, p - 1)}

\* Where state s is first encountered in the text.
FirstMention(s, text) ==
  SetMin(UNION {MentionPositions(c, text) : c \in CandidatesOf(s)})

\* C2 (as stated): the returned states are ordered by where each is first
\* encountered in the text.
C2_OrderOfFirstMention ==
  es_pc = "done" =>
    \A i, j \in 1..Len(es_result) :
      FirstMention(es_result[i], es_text) < FirstMention(es_result[j], es_text)
        => i < j

\* Index in the table `states` of the first candidate of s that matches.
TableRank(s, text) ==
  SetMin({k \in 1..Len(states) :
            states[k] \in CandidatesOf(s) /\ StateMatches(states[k], text)})

\* C2 (amended): the returned states are ordered by the table position of
\* the first candidate (full names in table order, then abbreviations in
\* table order) that matches for each state, whatever their order in the
\* text.
C2_OrderOfTable ==
  es_pc = "done" =>
    \A i, j \in 1..Len(es_result) :
      TableRank(es_result[i], es_text) < TableRank(es_result[j], es_text)
        => i < j

\* Two states reported whose order in the text is the reverse of their
\* order in the result.
C2_Witness ==
  /\ es_pc = "done"
  /\ Len(es_result) >= 2
  /\ FirstMention(es_result[2], es_text) < FirstMention(es_result[1], es_text)

\* Candidate c occurs in the padded text after a space and followed by a
\* space, a comma or a period.
OccursAsWord(c, text) ==
  LET padded == <<" ">> \o text \o <<" ">>
  IN  \/ Contains(<<" ">> \o c \o <<" ">>, padded)
      \/ Contains(<<" ">> \o c \o <<",">>, padded)
      \/ Contains(<<" ">> \o c \o <<".">>, padded)

\* C3: a state is reported exactly when its full name or abbreviation occurs
\* in the text padded with a leading and a trailing space, surrounded by
\* spaces or followed by a comma or period (so a name at the very start of
\* the text followed by a comma or period is matched).
C3_MatchesExactlyWholeWords ==
  es_pc = "done" =>
    \A s \in CanonicalNames :
      InList(s, es_result) <=> \E c \in CandidatesOf(s) : OccursAsWord(c, es_text)

\* ------------------------------------------------------------------------
\* Properties of the Leaning Scorer (checked under SpecScorer)
\* ------------------------------------------------------------------------

\* Number of characters of text that are no whitespace.
NonWhitespaceCount(text) ==
  IF text = NoneVal THEN 0
  ELSE Cardinality({i \in 1..Len(text) : text[i] \notin Whitespace})

\* C4 (as stated): for a text with fewer than 10 non-whitespace characters
\* (interior whitespace not counted), the scorer returns 0 and the
\* classification service is never called.
C4_FewNonWhitespaceNoCall ==
  (sc_pc = "done" /\ NonWhitespaceCount(sc_text) < MinTextLen) =>
    /\ sc_out.ret = Fin(0)
    /\ sc_out.exc = "none"
    /\ ~sc_out.called
    /\ sc_calls = 0

\* Length of the text once leading and trailing whitespace is removed.
StrippedLength(text) == IF text = NoneVal THEN 0 ELSE Len(Strip(text))

\* C4 (amended): for a text that is absent, empty, or shorter than 10
\* characters once leading and trailing whitespace is stripped (interior
\* whitespace counts), the scorer returns 0 and the classification service
\* is never called.
C4_ShortStrippedNoCall ==
  (sc_pc = "done" /\ StrippedLength(sc_text) < MinTextLen) =>
    /\ sc_out.ret = Fin(0)
    /\ sc_out.exc = "none"
    /\ ~sc_out.called
    /\ sc_calls = 0

\* A text of 10 characters or more whose stripped length is below 10 has
\* been scored without a call.
C4_Witness ==
  /\ sc_pc = "done"
  /\ sc_text # NoneVal
  /\ Len(sc_text) >= MinTextLen
  /\ StrippedLength(sc_text) < MinTextLen
  /\ StrippedLength(sc_text) > 0
  /\ ~sc_out.called

\* The service answered with a text that float() accepts.
AnsweredNumber ==
  /\ sc_pc = "done"
  /\ sc_completion.kind = "message"
  /\ sc_completion.content # NoneVal
  /\ ParseFloat(Strip(sc_completion.content)).ok

\* C5: whenever the service's answer parses as a number, the result is a
\* finite number in [-10, 10]: 10 for values above 10, -10 for values below
\* -10, and the value itself when it is in range.
C5_ResultFiniteInRange ==
  AnsweredNumber =>
    LET score == ParseFloat(Strip(sc_completion.content)).val
    IN  /\ sc_out.exc = "none"
        /\ IsFinite(sc_out.ret)
        /\ -ScoreLimit <= sc_out.ret.v /\ sc_out.ret.v <= ScoreLimit
        /\ FloatLt(Fin(ScoreLimit), score) => sc_out.ret = Fin(ScoreLimit)
        /\ FloatLt(score, Fin(-ScoreLimit)) => sc_out.ret = Fin(-ScoreLimit)
        /\ (IsFinite(score) /\ -ScoreLimit <= score.v /\ score.v <= ScoreLimit)
             => sc_out.ret = score

\* The request was made and failed, or its answer is no number.
CallFailedOrUnparsable ==
  /\ sc_pc = "done"
  /\ sc_out.called
  /\ \/ sc_completion.kind \in {"error", "no_choices"}
     \/ sc_completion.content = NoneVal
     \/ ~ParseFloat(Strip(sc_completion.content)).ok

\* C6: when the classification call fails, or its response does not parse
\* as a number, the scorer returns 0 and no exception leaves the function.
C6_FailureGivesNeutral ==
  CallFailedOrUnparsable => (sc_out.ret = Fin(0) /\ sc_out.exc = "none")

\* The service returned a message without content (None): .strip() raised
\* inside the try and the scorer returned 0.
C6_Witness ==
  /\ CallFailedOrUnparsable
  /\ sc_completion = Message(NoneVal)
  /\ sc_out.ret = Fin(0)
  /\ sc_out.exc = "none"

\* ------------------------------------------------------------------------
\* Properties of the Article Fetcher (checked under SpecFetch)
\* ------------------------------------------------------------------------

\* The pages requested are 1, 2, ..., k.
ConsecutivePages ==
  \A i \in 1..Len(f_requests) : f_requests[i] = i

\* A page after which no further request may follow: a non-200 status, no
\* results, or fewer results than the page size.
StopPage(response) == NumResults(response) < articlesCount

\* No request follows the first stop page: a stop page is the last page
\* requested, and the loop has been left.
NoRequestAfterStopPage ==
  \A i \in 1..Len(f_responses) :
    StopPage(f_responses[i]) => (i = Len(f_responses) /\ f_pc # "loop")

\* The call returns after at most max_pages requests: it never raises,
\* while in the loop it can always take its next step, and the number of
\* requests made is page - 1 <= max_pages.
TerminatesWithinCeiling ==
  /\ f_pc \in {"loop", "done"}
  /\ Len(f_requests) <= max_pages
  /\ f_pc = "loop" =>
       (page = Len(f_requests) + 1 /\ page <= max_pages /\ ENABLED FetchNext)

RECURSIVE TotalResults(_, _)
TotalResults(responses, k) ==
  IF k = 0 THEN 0
  ELSE TotalResults(responses, k - 1) + NumResults(responses[k])

PageFails(response) ==
  \/ response.kind = "transport_error"
  \/ /\ response.kind = "http"
     /\ response.status = StatusOK
     /\ \/ ~response.json_ok
        \/ response.shape \in {"not_dict", "null_articles"}
        \/ /\ response.shape = "results"
           /\ \E i \in 1..Len(response.head) :
                DictGet(response.head[i], "source", JsonDict(EmptyDict)) = JsonNull

\* The articles of a page whose results are all transformed.
PageArticles(response) ==
  LET articles == ResultsOf(response)
  IN  [i \in 1..Len(articles) |-> TransformArticle(articles[i]).art]

\* The articles of pages 1..k, in page order.
RECURSIVE ArticlesOfPages(_, _)
ArticlesOfPages(responses, k) ==
  IF k = 0 THEN <<>>
  ELSE ArticlesOfPages(responses, k - 1) \o PageArticles(responses[k])

\* C8: if the fetch or processing of page k fails with an exception, the
\* call does not raise: it stops paginating and returns exactly the
\* articles of pages 1..k-1, in page order, and none of page k.
C8_FailingPageKeepsEarlierPages ==
  \A k \in 1..Len(f_responses) :
    PageFails(f_responses[k]) =>
      /\ k = Len(f_responses)
      /\ f_pc = "done"
      /\ all_articles = ArticlesOfPages(f_responses, k - 1)

\* A later page failed while one of its results was transformed, after an
\* earlier result of that page had been transformed; the articles of the
\* earlier pages were returned.
C8_Witness ==
  /\ f_pc = "done"
  /\ Len(f_responses) >= 2
  /\ f_responses[Len(f_responses)].head = <<RawFull, RawNullSource>>
  /\ Len(all_articles) >= articlesCount

\* C9: every article returned has non-null title, description, body, url,
\* source name and date fields (a missing or null field is replaced by the
\* empty string or the current time).
C9_NoNullFields ==
  f_pc = "done" =>
    \A i \in 1..Len(all_articles) :
      /\ all_articles[i].title # NoneVal
      /\ all_articles[i].description # NoneVal
      /\ all_articles[i].body # NoneVal
      /\ all_articles[i].url # NoneVal
      /\ all_articles[i].source.name # NoneVal
      /\ all_articles[i].publishedAt # NoneVal
      /\ all_articles[i].date # NoneVal

\* ------------------------------------------------------------------------
\* Properties of the Enrichment Pipeline (checked under Spec)
\* ------------------------------------------------------------------------

\* Indices of the articles whose url no earlier article has.
FirstOccurrences(articles) ==
  {i \in 1..Len(articles) :
     \A j \in 1..(i - 1) : articles[j].url # articles[i].url}

\* The k-th smallest element of a set of indices.
KthIndex(S, k) == CHOOSE i \in S : Cardinality({j \in S : j < i}) = k - 1

\* C10: after deduplication over the articles of all topics, no two retained
\* articles share a url; for each url the retained article is the first one
\* encountered in fetch order (its content, not a later duplicate's), and
\* the retained articles keep their first-seen relative order.
C10_FirstOccurrenceKept ==
  p_pc = "process" =>
    LET firsts == FirstOccurrences(p_all_articles)
    IN  /\ \A i, j \in 1..Len(unique_articles) :
             i # j => unique_articles[i].url # unique_articles[j].url
        /\ Len(unique_articles) = Cardinality(firsts)
        /\ \A k \in 1..Len(unique_articles) :
             unique_articles[k] = p_all_articles[KthIndex(firsts, k)]

\* Two fetched articles with the same url and different content: the
\* earlier one was retained, the later one dropped.
C10_Witness ==
  /\ p_pc = "process"
  /\ \E i, j \in 1..Len(p_all_articles) :
       /\ i < j
       /\ p_all_articles[i].url = p_all_articles[j].url
       /\ p_all_articles[i] # p_all_articles[j]
       /\ InList(p_all_articles[i], unique_articles)
       /\ ~InList(p_all_articles[j], unique_articles)

\* ------------------------------------------------------------------------
\* C11: the scorer is invoked once per article that mentions a state
\* ------------------------------------------------------------------------

\* The pieces joined by single spaces.
RECURSIVE JoinSpace(_)
JoinSpace(parts) ==
  IF Len(parts) = 0 THEN <<>>
  ELSE IF Len(parts) = 1 THEN parts[1]
  ELSE parts[1] \o <<" ">> \o JoinSpace(Tail(parts))

\* The composite text of an article whose title is a text: the title, then
\* the description if non-empty, then the body if non-empty.
TitleThenNonEmpty(article) ==
  JoinSpace(<<article.title>>
              \o (IF Truthy(article.description) THEN <<article.description>> ELSE <<>>)
              \o (IF Truthy(article.body) THEN <<article.body>> ELSE <<>>))

MentionsState(article) == extract_states(TitleThenNonEmpty(article)) # <<>>

\* The positions in invocations of the calls of fn made for the k-th
\* unique article.
CallsFor(fn, k) ==
  {n \in 1..Len(invocations) :
     invocations[n].fn = fn /\ invocations[n].article = k}

RunEnded == p_pc \in {"done", "raised"}

\* C11: during one pipeline run the Leaning Scorer is invoked exactly once
\* for each unique article whose composite text matches at least one state,
\* always after that article's state extraction and on the composite text,
\* and never for an article that matches no state. (Articles whose title is
\* a text; the invocations of a run are all made when the run has ended.)
C11_ScoredOncePerMatchingArticle ==
  \A k \in 1..Len(unique_articles) :
    LET article == unique_articles[k]
        scored  == CallsFor("analyze_political_leaning", k)
    IN  article.title # NoneVal =>
          /\ \A n \in scored :
               /\ MentionsState(article)
               /\ invocations[n].text = TitleThenNonEmpty(article)
               /\ \E m \in CallsFor("extract_states", k) : m < n
          /\ Cardinality(scored) <= 1
          /\ (RunEnded /\ MentionsState(article)) => Cardinality(scored) = 1

\* ------------------------------------------------------------------------
\* C12: one row per unique article and matched state
\* ------------------------------------------------------------------------

\* The states an article matches: those of its composite text; an article
\* without a title text and without description and body has no text.
MatchedStates(article) ==
  IF article.title = NoneVal THEN <<>>
  ELSE extract_states(TitleThenNonEmpty(article))

\* The rows of the returned table that carry the url of an article.
RowsOf(article) == {n \in 1..Len(df) : df[n].url = article.url}

\* C12: the table returned by compile_news_political_data contains exactly
\* one row per (unique article, matched state) pair: an article matching n
\* states yields n rows, one per state, that carry the article's title,
\* url, source and date and one and the same political_leaning; an article
\* matching no state yields no row; and there is no other row.
C12_OneRowPerArticleAndState ==
  p_pc = "done" =>
    /\ \A k \in 1..Len(unique_articles) :
         LET article == unique_articles[k]
             matched == MatchedStates(article)
             rows    == RowsOf(article)
         IN  /\ Cardinality(rows) = Len(matched)
             /\ {df[n].state : n \in rows} = Range(matched)
             /\ \A n \in rows :
                  /\ df[n].title = article.title
                  /\ df[n].source = article.source.name
                  /\ df[n].date = article.date
             /\ \A n, m \in rows :
                  df[n].political_leaning = df[m].political_leaning
    /\ \A n \in 1..Len(df) :
         \E k \in 1..Len(unique_articles) : df[n].url = unique_articles[k].url

\* A returned table with the rows of two articles: one matches two states
\* and has two rows with the score the service gave, the other article has
\* its own row.
C12_Witness ==
  /\ p_pc = "done"
  /\ \E k, j \in 1..Len(unique_articles) :
       /\ k # j
       /\ Len(MatchedStates(unique_articles[k])) = 2
       /\ Cardinality(RowsOf(unique_articles[k])) = 2
       /\ \A n \in RowsOf(unique_articles[k]) :
            df[n].political_leaning = Fin(7)
       /\ Cardinality(RowsOf(unique_articles[j])) = 1

\* ------------------------------------------------------------------------
\* C13: an empty table leaves the artifact alone
\* ------------------------------------------------------------------------

\* No file was created or overwritten by this run: each is as an earlier
\* run left it, or missing.
FilesUntouched ==
  \A path \in Paths :
    /\ files[path] \in {Absent, PriorFile}
    /\ files[path].mtime # "this run"

NoArticleFetched == p_all_articles = <<>>

NoArticleMentionsState ==
  \A k \in 1..Len(p_all_articles) : MatchedStates(p_all_articles[k]) = <<>>

\* C13: whenever a pipeline run ends with an empty table (no article was
\* fetched for any topic, or no fetched article mentions a state),
\* compile_news_political_data returns an empty table and the artifact file
\* is neither created nor overwritten: an artifact of a prior run is
\* unchanged.
C13_EmptyTableLeavesArtifact ==
  (p_pc = "done" /\ (df = <<>> \/ NoArticleFetched \/ NoArticleMentionsState))
    => (df = <<>> /\ FilesUntouched)

\* A run that fetched articles, none of which mentions a state, has
\* returned; the artifact of a prior run is still there.
C13_Witness ==
  /\ p_pc = "done"
  /\ ~NoArticleFetched
  /\ NoArticleMentionsState
  /\ \E k \in 1..Len(invocations) : invocations[k].fn = "extract_states"
  /\ df = <<>>
  /\ files[OutputFile] = PriorFile

\* ------------------------------------------------------------------------
\* C14: no response of the services makes the run raise
\* ------------------------------------------------------------------------

\* C14: whatever the search service answers (any status, missing or null
\* fields in the results, any failure) and whatever the classification
\* service answers or however it fails, compile_news_political_data
\* returns a table and never leaves by an exception.
C14_RunNeverRaises == p_pc # "raised" /\ p_exc = "none"

\* ------------------------------------------------------------------------
\* C15: the dashboard reads the table the run wrote
\* ------------------------------------------------------------------------

\* C15: after a pipeline run that returned a non-empty table, load_data,
\* called from the same working directory, finds the file and returns the
\* table that run wrote, with that run's modification time: it neither
\* reports the file missing nor returns the rows of a previous run.
C15_LoadReturnsTableOfRun ==
  (p_pc = "done" /\ df # <<>> /\ ld_pc = "done")
    => /\ ld_out.found
       /\ ld_out.df = df
       /\ ld_out.mod_time = "this run"

====
